---------------------------- MODULE Spec2Model ----------------------------
(***************************************************************************)
(* bare-bmp: the BMP <-> RGBA codec of src/binding.c behind the JavaScript *)
(* wrappers of src/index.js.                                               *)
(*                                                                         *)
(* C integers are little-endian sequences of bytes (base-256 digits) of    *)
(* the type's width: 4 digits for int32_t/uint32_t, 8 for int64_t/size_t.  *)
(* That is the layout the packed header structs overlay on the buffer, and *)
(* it keeps every C operation at its real width (2^32, 2^64) although the  *)
(* model checker's own integers stop at 2^31.                              *)
(***************************************************************************)
EXTENDS Integers, Sequences, FiniteSets, TLC

(***************************************************************************)
(* Fixed-width integer arithmetic (stdint.h types as used by binding.c)    *)
(***************************************************************************)

\* A natural number below 2^31 as n little-endian bytes.
ToBytes(v, n) ==
  <<>> \o
  [i \in 1..n |-> CASE i = 1 -> v % 256
                    [] i = 2 -> (v \div 256) % 256
                    [] i = 3 -> (v \div 65536) % 256
                    [] i = 4 -> (v \div 16777216) % 256
                    [] OTHER -> 0]

\* Carry propagation: the digits of the number whose i-th column holds
\* cols[i] (any natural number), from column i on with carry-in c, modulo
\* 256^Len(cols).
RECURSIVE Normalize(_, _, _)
Normalize(cols, i, c) ==
  IF i > Len(cols) THEN <<>>
  ELSE LET s == cols[i] + c
       IN  <<s % 256>> \o Normalize(cols, i + 1, s \div 256)

\* Addition with carry-in, modulo 256^Len(a).
AddC(a, b, c) == Normalize(<<>> \o [i \in 1..Len(a) |-> a[i] + b[i]], 1, c)

Add(a, b) == AddC(a, b, 0)

Not(a) == <<>> \o [i \in 1..Len(a) |-> 255 - a[i]]

\* Two's complement negation, modulo 256^Len(a).
Neg(a) == Normalize(Not(a), 1, 1)

Sub(a, b) == AddC(a, Not(b), 1)

\* The sign bit of a two's complement value.
IsNeg(a) == a[Len(a)] >= 128

IsZero(a) == \A i \in 1..Len(a) : a[i] = 0

\* Conversions between widths: truncation, zero extension (unsigned source)
\* and sign extension (signed source).
Trunc(a, n) == SubSeq(a, 1, n)

ZExt(a, n) == a \o [i \in 1..(n - Len(a)) |-> 0]

SExt(a, n) == a \o [i \in 1..(n - Len(a)) |-> IF IsNeg(a) THEN 255 ELSE 0]

\* A small (possibly negative) integer constant as an n-byte two's
\* complement value.
FromInt(v, n) == IF v < 0 THEN Neg(ToBytes(-v, n)) ELSE ToBytes(v, n)

\* Column k of the schoolbook product: the sum of a[i] * b[j], i + j = k + 1.
RECURSIVE ColSum(_, _, _, _)
ColSum(a, b, k, i) ==
  IF i > k THEN 0
  ELSE (IF k + 1 - i <= Len(b) THEN a[i] * b[k + 1 - i] ELSE 0)
         + ColSum(a, b, k, i + 1)

\* Multiplication modulo 256^Len(a) (Len(b) <= Len(a)); two's complement
\* makes it the product of signed and of unsigned operands alike.
Mul(a, b) == Normalize(<<>> \o [k \in 1..Len(a) |-> ColSum(a, b, k, 1)], 1, 0)

\* Unsigned comparison of the low n digits, from the most significant.
RECURSIVE ULtFrom(_, _, _)
ULtFrom(a, b, n) ==
  IF n = 0 THEN FALSE
  ELSE IF a[n] # b[n] THEN a[n] < b[n]
  ELSE ULtFrom(a, b, n - 1)

ULt(a, b) == ULtFrom(a, b, Len(a))

\* Signed comparison.
SLt(a, b) ==
  IF IsNeg(a) # IsNeg(b) THEN IsNeg(a) ELSE ULt(a, b)

\* Unsigned division by a small divisor d: the quotient digits from digit n
\* down, r the running remainder.
RECURSIVE UDivR(_, _, _, _)
UDivR(a, d, n, r) ==
  IF n = 0 THEN <<>>
  ELSE LET cur == r * 256 + a[n]
       IN  UDivR(a, d, n - 1, cur % d) \o <<cur \div d>>

UDiv(a, d) == UDivR(a, d, Len(a), 0)

\* Signed division by a small positive divisor: C truncates toward zero.
SDiv(a, d) == IF IsNeg(a) THEN Neg(UDiv(Neg(a), d)) ELSE UDiv(a, d)

\* A value known to be below 2^24, as a natural number.
IsSmall(a) == \A i \in 4..Len(a) : a[i] = 0

ToNat(a) == a[1] + 256 * a[2] + 65536 * a[3]

\* Signed multiplication at width Len(a): the wrapped product, and whether
\* the exact product does not fit (signed overflow: undefined behaviour).
SMul(a, b) ==
  LET n     == Len(a)
      exact == Mul(SExt(a, 2 * n), SExt(b, 2 * n))
      val   == Trunc(exact, n)
  IN  [val |-> val, ovf |-> SExt(val, 2 * n) # exact]

\* Signed addition at width Len(a): the wrapped sum, and whether the exact
\* sum does not fit.
SAdd(a, b) ==
  LET val == Add(a, b)
  IN  [val |-> val, ovf |-> IsNeg(a) = IsNeg(b) /\ IsNeg(val) # IsNeg(a)]

(***************************************************************************)
(* Header layout (the packed structs of binding.c) and error messages      *)
(***************************************************************************)

\* sizeof(bmp_file_header_t) and sizeof(bmp_dib_header_t).
FileHeaderSize == 14

DibHeaderSize == 40

HeaderSize == FileHeaderSize + DibHeaderSize

\* Byte offsets of the fields the codec reads or writes, from the start of
\* the buffer, and their sizes.
OffMagic == 0

OffFileSize == 2

OffDataOffset == 10

OffHeaderSize == 14

OffWidth == 18

OffHeight == 22

OffPlanes == 26

OffBpp == 28

OffCompression == 30

OffImageSize == 34

OffXPixelsPerM == 38

OffYPixelsPerM == 42

\* A faulty variant: the magic compared in the other byte order (0x424D).
MagicSwapped == <<77, 66>>

\* 0x4D42 as the packed little-endian uint16_t: 'B', 'M'.
Magic == <<66, 77>>

\* The n bytes of a header field at offset off, and the offsets it covers.
Field(buf, off, n) == SubSeq(buf, off + 1, off + n)

FieldRange(off, n) == off..(off + n - 1)

\* The messages of js_throw_error, by the spec's name of the failure.
TooSmall == "Invalid BMP: file too small"

BadMagic == "Invalid BMP: wrong magic number"

UnsupportedHeader == "Unsupported BMP: only BITMAPINFOHEADER supported"

UnsupportedCompression == "Unsupported BMP: only uncompressed format supported"

UnsupportedBitDepth == "Unsupported BMP: only 24-bit and 32-bit formats supported"

TruncatedData == "Invalid BMP: pixel data exceeds file size"

AllocationFailure == "Memory allocation failed"

BufferTooSmall == "Invalid RGBA: data buffer too small"

NotSupported == "BMP format does not support animation"

\* A call that returned its value.
Ok == "ok"

\* The process died in the call: a trapped signed overflow or a faulting
\* out-of-bounds access.
Crashed == "crash"

\* The call never returns: a loop counter that wrapped below its limit.
Hung == "hang"

(***************************************************************************)
(* Outcomes of a call                                                      *)
(***************************************************************************)

\* What a call leaves behind.  width/height: the int64 values of the result
\* object (empty when there is none); data: the bytes of the returned
\* buffer; byteLength: its length as the size_t handed to
\* js_create_external_arraybuffer; reads: the offsets of the input buffer
\* the call read; allocated: whether an output buffer was obtained from
\* malloc; oob: whether the call accessed memory outside its input or
\* output buffer.
Outcome(status, width, height, data, byteLength, reads, allocated, oob) ==
  [status |-> status, width |-> width, height |-> height, data |-> data,
   byteLength |-> byteLength, reads |-> reads, allocated |-> allocated,
   oob |-> oob]

\* js_throw_error followed by return NULL: no value, nothing allocated.
Thrown(msg, reads) == Outcome(msg, <<>>, <<>>, <<>>, <<>>, reads, FALSE, FALSE)

NoOutcome == Thrown("none", {})

\* An uninitialised byte of a fresh malloc block.
Uninit == -1

\* malloc(size), size a size_t: NULL above PTRDIFF_MAX, a block otherwise
\* (a zero-size request returns a unique pointer).
MallocFails(size) == IsNeg(size)

\* The builds the undefined behaviours resolve differently on: a signed
\* overflow wraps (two's complement) or traps (-ftrapv, a sanitizer).
Overflows == {"wrap", "trap"}

\* The values a read outside the buffers may produce when it does not
\* fault.
Garbage == {0, 170}

\* How many bytes of an output block of the given size the model keeps: the
\* whole block when it is at most cap bytes.
View(size, cap) == IF IsSmall(size) /\ ToNat(size) <= cap THEN ToNat(size) ELSE cap

\* The bytes of a returned block, a never-written byte reading as g.
Settle(mem, g) == [i \in 1..Len(mem) |-> IF mem[i] = Uninit THEN g ELSE mem[i]]

(***************************************************************************)
(* bare_bmp_decode                                                         *)
(***************************************************************************)

\* The process dies inside the call.
Crash(reads, allocated, oob) ==
  Outcome(Crashed, <<>>, <<>>, <<>>, <<>>, reads, allocated, oob)

\* One state of the conversion loops: the output block, the input offsets
\* read, whether an access fell outside a buffer (oob) or a signed
\* multiplication overflowed (ovf).  Either ends the exact simulation: what
\* follows is undefined behaviour.
LoopState(mem, reads, oob, ovf) ==
  [mem |-> mem, reads |-> reads, oob |-> oob, ovf |-> ovf]

\* int32_t src_row = top_down ? y : (abs_height - 1 - y).
SrcRow(top_down, abs_height, y) ==
  IF top_down THEN ToBytes(y, 4)
  ELSE Sub(Sub(abs_height, ToBytes(1, 4)), ToBytes(y, 4))

\* The four bytes stored for the source pixel at offset s: src[2], src[1],
\* src[0], then src[3] for 32-bit input and 0xFF otherwise.
DecodePixel(bmp_data, s, bpp) ==
  <<bmp_data[s + 3], bmp_data[s + 2], bmp_data[s + 1],
    IF bpp = 32 THEN bmp_data[s + 4] ELSE 255>>

\* mem with the bytes px stored from offset d on.
Store(mem, d, px) ==
  [i \in 1..Len(mem) |-> IF i > d /\ i <= d + Len(px) THEN px[i - d] ELSE mem[i]]

\* The loops "for y < abs_height / for x < width" of bare_bmp_decode from
\* pixel (y, x) on, for 0 < width and 0 < abs_height.  g holds the locals of
\* the function; size is the size of the rgba_data block.
RECURSIVE DecodeLoop(_, _, _, _, _)
DecodeLoop(g, y, x, mem, reads) ==
  IF ~SLt(ToBytes(y, 4), g.abs_height) THEN LoopState(mem, reads, FALSE, FALSE)
  ELSE IF ~SLt(ToBytes(x, 4), g.width) THEN DecodeLoop(g, y + 1, 0, mem, reads)
  ELSE
    LET src_row == SrcRow(g.top_down, g.abs_height, y)
        \* src = pixel_data + src_row * row_size (uint32_t), advanced by
        \* bytes_per_pixel per pixel
        src == Add(Add(ZExt(g.data_offset, 8), ZExt(Mul(src_row, g.row_size), 8)),
                   ToBytes(x * g.bytes_per_pixel, 8))
        \* dst = rgba_data + y * width * 4 (int), advanced by 4 per pixel
        m1  == SMul(ToBytes(y, 4), g.width)
        m2  == SMul(m1.val, ToBytes(4, 4))
        dst == Add(SExt(m2.val, 8), ToBytes(4 * x, 8))
        srcIn == IsSmall(src) /\ ToNat(src) + g.bytes_per_pixel <= Len(g.bmp_data)
        dstIn == ~IsNeg(dst) /\ ULt(Add(dst, ToBytes(3, 8)), g.size)
        s == ToNat(src)
        d == ToNat(dst)
    IN  IF m1.ovf \/ m2.ovf THEN LoopState(mem, reads, FALSE, TRUE)
        ELSE IF ~(srcIn /\ dstIn) THEN LoopState(mem, reads, TRUE, FALSE)
        ELSE DecodeLoop(g, y, x + 1, Store(mem, d, DecodePixel(g.bmp_data, s, g.bpp)),
                        reads \cup (s..(s + g.bytes_per_pixel - 1)))

\* bare_bmp_decode once the five header checks have passed: geometry, the
\* extent check, the allocation, the conversion and the result object.
\* hdr: the offsets the header checks read.
DecodeImage(bmp_data, overflow, hdr) ==
  LET bmp_len         == Len(bmp_data)
      width           == Field(bmp_data, OffWidth, 4)
      height          == Field(bmp_data, OffHeight, 4)
      \* -height is a signed overflow for INT32_MIN
      negOvf          == IsNeg(height) /\ Neg(height) = height
      abs_height      == IF IsNeg(height) THEN Neg(height) ELSE height
      top_down        == IsNeg(height)
      bpp             == ToNat(ZExt(Field(bmp_data, OffBpp, 2), 4))
      bytes_per_pixel == bpp \div 8
      \* uint32_t arithmetic: width converts to unsigned
      row_size        == Mul(UDiv(Add(Mul(width, ToBytes(bytes_per_pixel, 4)),
                                      ToBytes(3, 4)), 4), ToBytes(4, 4))
      data_offset     == Field(bmp_data, OffDataOffset, 4)
      extent          == Add(data_offset, Mul(row_size, abs_height))
      reads           == hdr \cup FieldRange(OffWidth, 4) \cup FieldRange(OffHeight, 4)
                             \cup FieldRange(OffDataOffset, 4)
      \* width * abs_height * 4 in int, converted to size_t
      m1              == SMul(width, abs_height)
      m2              == SMul(m1.val, ToBytes(4, 4))
      size            == SExt(m2.val, 8)
      g               == [bmp_data |-> bmp_data, width |-> width,
                          abs_height |-> abs_height, top_down |-> top_down,
                          bpp |-> bpp, bytes_per_pixel |-> bytes_per_pixel,
                          row_size |-> row_size, data_offset |-> data_offset,
                          size |-> size]
      fresh           == [i \in 1..View(size, 4 * bmp_len + 4) |-> Uninit]
      \* With width <= 0 the inner loop never runs; the outer one still
      \* forms y * width * 4 for every row up to the last.
      l1              == SMul(Sub(abs_height, ToBytes(1, 4)), width)
      l2              == SMul(l1.val, ToBytes(4, 4))
      run             == IF ~SLt(ToBytes(0, 4), abs_height)
                           THEN LoopState(fresh, reads, FALSE, FALSE)
                         ELSE IF ~SLt(ToBytes(0, 4), width)
                           THEN LoopState(fresh, reads, FALSE, l1.ovf \/ l2.ovf)
                         ELSE DecodeLoop(g, 0, 0, fresh, reads)
      result(gb)      == Outcome(Ok, SExt(width, 8), SExt(abs_height, 8),
                                 Settle(run.mem, gb), size, run.reads, TRUE, run.oob)
  IN  IF negOvf /\ overflow = "trap" THEN {Crash(reads, FALSE, FALSE)}
      ELSE IF ULt(ToBytes(bmp_len, 8), ZExt(extent, 8))
        THEN {Thrown(TruncatedData, reads)}
      ELSE IF (m1.ovf \/ m2.ovf) /\ overflow = "trap" THEN {Crash(reads, FALSE, FALSE)}
      ELSE IF MallocFails(size) THEN {Thrown(AllocationFailure, reads)}
      ELSE IF run.ovf /\ overflow = "trap" THEN {Crash(run.reads, TRUE, FALSE)}
      ELSE IF run.oob
        THEN {Crash(run.reads, TRUE, TRUE)} \cup {result(gb) : gb \in Garbage}
      ELSE {result(gb) : gb \in Garbage}

\* bare_bmp_decode(buffer): the set of outcomes the call can have on a build
\* whose signed overflows behave as `overflow`.
bare_bmp_decode(bmp_data, overflow) ==
  LET bmp_len == Len(bmp_data)
      r1 == FieldRange(OffMagic, 2)
      r2 == r1 \cup FieldRange(OffHeaderSize, 4)
      r3 == r2 \cup FieldRange(OffCompression, 4)
      r4 == r3 \cup FieldRange(OffBpp, 2)
      bpp == Field(bmp_data, OffBpp, 2)
  IN  IF bmp_len < FileHeaderSize + DibHeaderSize THEN {Thrown(TooSmall, {})}
      ELSE IF Field(bmp_data, OffMagic, 2) # Magic THEN {Thrown(BadMagic, r1)}
      ELSE IF Field(bmp_data, OffHeaderSize, 4) # ToBytes(40, 4)
        THEN {Thrown(UnsupportedHeader, r2)}
      ELSE IF Field(bmp_data, OffCompression, 4) # ToBytes(0, 4)
        THEN {Thrown(UnsupportedCompression, r3)}
      ELSE IF bpp # ToBytes(24, 2) /\ bpp # ToBytes(32, 2)
        THEN {Thrown(UnsupportedBitDepth, r4)}
      ELSE DecodeImage(bmp_data, overflow, r4)

\* exports.decode of index.js: binding.decode, whose exception propagates,
\* then Buffer.from(data), a view of the same bytes.
decode(buffer, overflow) == bare_bmp_decode(buffer, overflow)

(***************************************************************************)
(* Inputs of the host                                                      *)
(***************************************************************************)

\* 'BM', as header.write('BM', 0) stores it.
BM == <<66, 77>>

\* Byte i of the content a test writes behind the header: distinct in
\* neighbouring bytes, so that rows and channels can be told apart.
PixelByte(seed, i) == (seed + 37 * i) % 256

\* A BMP buffer built the way the tests of index.js build one: the 54
\* header bytes field by field, then content, the whole cut to len bytes.
MakeBmp(magic, header_size, compression, bpp, width, height, data_offset, len, seed) ==
  LET header == magic \o ToBytes(len, 4) \o ToBytes(0, 4) \o data_offset
                \o ToBytes(header_size, 4) \o width \o height
                \o ToBytes(1, 2) \o ToBytes(bpp, 2) \o ToBytes(compression, 4)
                \o ToBytes(0, 20)
      full   == header \o [i \in 1..(IF len > HeaderSize THEN len - HeaderSize ELSE 0)
                             |-> PixelByte(seed, i - 1)]
  IN  SubSeq(full, 1, len)

(***************************************************************************)
(* bare_bmp_encode                                                         *)
(***************************************************************************)

\* The RGBA object {width, height, data} handed to encode: width and height
\* as js_get_value_int64 delivers them, data with its byte length.
Image(width, height, data) ==
  [width |-> width, height |-> height, data |-> data,
   byteLength |-> ToBytes(Len(data), 8)]

\* The 54 header bytes bare_bmp_encode stores through the two packed
\* structs.
EncodeHeader(file_size, width, height, pixel_data_size) ==
  Magic \o file_size \o ToBytes(0, 2) \o ToBytes(0, 2)
    \o ToBytes(FileHeaderSize + DibHeaderSize, 4)
    \o ToBytes(40, 4) \o Trunc(width, 4) \o Trunc(height, 4)
    \o ToBytes(1, 2) \o ToBytes(24, 2) \o ToBytes(0, 4) \o pixel_data_size
    \o ToBytes(2835, 4) \o ToBytes(2835, 4) \o ToBytes(0, 4) \o ToBytes(0, 4)

\* A faulty variant: rows are stored in source order, dst_row = y.
DstRowSame(height, y) == Trunc(ToBytes(y, 8), 4)

\* int32_t dst_row = height - 1 - y, truncated from int64_t.
DstRow(height, y) == Trunc(Sub(Sub(height, ToBytes(1, 8)), ToBytes(y, 8)), 4)

\* The three bytes stored for the source pixel at offset s: src[2], src[1],
\* src[0]; src[3] is not read.
EncodePixel(rgba_data, s) == <<rgba_data[s + 3], rgba_data[s + 2], rgba_data[s + 1]>>

\* The loops "for y < height / for x < width" of bare_bmp_encode from pixel
\* (y, x) on, for 0 < width and 0 < height.
RECURSIVE EncodeLoop(_, _, _, _, _)
EncodeLoop(g, y, x, mem, reads) ==
  IF ~SLt(ToBytes(y, 8), g.height) THEN LoopState(mem, reads, FALSE, FALSE)
  ELSE IF ~SLt(ToBytes(x, 8), g.width) THEN EncodeLoop(g, y + 1, 0, mem, reads)
  ELSE
    LET dst_row == DstRow(g.height, y)
        \* src = rgba_data + y * width * 4 (int64_t), advanced by 4
        m1  == SMul(ToBytes(y, 8), g.width)
        m2  == SMul(m1.val, ToBytes(4, 8))
        src == Add(m2.val, ToBytes(4 * x, 8))
        \* dst = pixel_data + dst_row * row_size (uint32_t), advanced by 3
        dst == Add(Add(ToBytes(FileHeaderSize + DibHeaderSize, 8),
                       ZExt(Mul(dst_row, g.row_size), 8)),
                   ToBytes(3 * x, 8))
        srcIn == ~IsNeg(src) /\ ULt(Add(src, ToBytes(2, 8)), g.rgba_len)
        dstIn == ULt(Add(dst, ToBytes(2, 8)), ZExt(g.file_size, 8))
        s == ToNat(src)
        d == ToNat(dst)
    IN  IF m1.ovf \/ m2.ovf THEN LoopState(mem, reads, FALSE, TRUE)
        ELSE IF ~(srcIn /\ dstIn) THEN LoopState(mem, reads, TRUE, FALSE)
        ELSE EncodeLoop(g, y, x + 1, Store(mem, d, EncodePixel(g.rgba_data, s)),
                        reads \cup (s..(s + 2)))

\* bare_bmp_encode(image): the set of outcomes the call can have on a build
\* whose signed overflows behave as `overflow`.
bare_bmp_encode(image, overflow) ==
  LET width     == image.width
      height    == image.height
      rgba_data == image.data
      rgba_len  == image.byteLength
      \* (size_t)(width * height * 4), int64_t arithmetic
      v1        == SMul(width, height)
      v2        == SMul(v1.val, ToBytes(4, 8))
      \* ((width * bytes_per_pixel + 3) / 4) * 4 in int64_t, kept as uint32_t
      t1        == SMul(width, ToBytes(3, 8))
      t2        == SAdd(t1.val, ToBytes(3, 8))
      row_size  == Trunc(Mul(SDiv(t2.val, 4), ToBytes(4, 8)), 4)
      \* row_size * height in int64_t, kept as uint32_t
      p1        == SMul(ZExt(row_size, 8), height)
      pixel_data_size == Trunc(p1.val, 4)
      \* sizeof + sizeof + pixel_data_size in size_t, kept as uint32_t
      file_size == Trunc(Add(ToBytes(FileHeaderSize + DibHeaderSize, 8),
                             ZExt(pixel_data_size, 8)), 4)
      view      == View(ZExt(file_size, 8), HeaderSize + 4 * Len(rgba_data) + 4)
      zeroed    == [i \in 1..view |-> 0]
      header    == EncodeHeader(file_size, width, height, pixel_data_size)
      \* the header stores run past a block shorter than the two structs
      headerOob == ULt(ZExt(file_size, 8), ToBytes(FileHeaderSize + DibHeaderSize, 8))
      filled    == [i \in 1..view |-> IF i <= HeaderSize THEN header[i] ELSE 0]
      g         == [width |-> width, height |-> height, rgba_data |-> rgba_data,
                    rgba_len |-> rgba_len, row_size |-> row_size,
                    file_size |-> file_size]
      \* With width <= 0 the inner loop never runs; the outer one still
      \* counts y up to height in an int32_t and forms y * width * 4.
      yOvf      == SLt(SExt(<<255, 255, 255, 127>>, 8), height)
      l1        == SMul(Sub(height, ToBytes(1, 8)), width)
      l2        == SMul(l1.val, ToBytes(4, 8))
      run       == IF headerOob THEN LoopState(filled, {}, TRUE, FALSE)
                   ELSE IF ~SLt(ToBytes(0, 8), height)
                     THEN LoopState(filled, {}, FALSE, FALSE)
                   ELSE IF ~SLt(ToBytes(0, 8), width)
                     THEN LoopState(filled, {}, FALSE, yOvf \/ l1.ovf \/ l2.ovf)
                   ELSE EncodeLoop(g, 0, 0, filled, {})
      result    == Outcome(Ok, <<>>, <<>>, run.mem, ZExt(file_size, 8),
                           run.reads, TRUE, run.oob)
  IN  IF (v1.ovf \/ v2.ovf) /\ overflow = "trap" THEN {Crash({}, FALSE, FALSE)}
      ELSE IF ULt(rgba_len, v2.val) THEN {Thrown(BufferTooSmall, {})}
      ELSE IF (t1.ovf \/ t2.ovf \/ p1.ovf) /\ overflow = "trap"
        THEN {Crash({}, FALSE, FALSE)}
      ELSE IF MallocFails(ZExt(file_size, 8)) THEN {Thrown(AllocationFailure, {})}
      ELSE IF run.ovf /\ overflow = "trap" THEN {Crash(run.reads, TRUE, FALSE)}
      ELSE IF run.ovf /\ ~SLt(ToBytes(0, 8), width) /\ yOvf
        THEN {Outcome(Hung, <<>>, <<>>, <<>>, <<>>, run.reads, TRUE, FALSE)}
      ELSE IF run.oob THEN {Crash(run.reads, TRUE, TRUE), result}
      ELSE {result}

\* exports.encode of index.js: binding.encode(image, opts), whose exception
\* propagates, then Buffer.from(buffer), a view of the same bytes.
encode(image, overflow) == bare_bmp_encode(image, overflow)

(***************************************************************************)
(* bare_bmp_encode_animated                                                *)
(***************************************************************************)

\* A faulty variant: the stub returns an empty buffer instead of throwing.
bare_bmp_encode_animated_returns(args) ==
  Outcome(Ok, <<>>, <<>>, <<>>, ToBytes(0, 8), {}, TRUE, FALSE)

\* js_throw_error and return NULL, whatever the callback info holds.
bare_bmp_encode_animated(args) == Thrown(NotSupported, {})

\* exports.encodeAnimated of index.js: calls the binding with no argument,
\* whatever it was given.
encodeAnimated(args) == bare_bmp_encode_animated(<<>>)

\* Bounds of the inputs the host hands in.
MaxWidth == 2

MaxHeight == 2

MaxSlack == 1

\* Content seeds.
Seeds == {7, 200}

\* INT32_MIN, INT32_MAX, 0x40000000, 0x40000001 and 0xFFFFFFFE as 4 bytes,
\* 2^62 as 8.
Int32Min == <<0, 0, 0, 128>>

Int32Max == <<255, 255, 255, 127>>

Pow30 == <<0, 0, 0, 64>>

Pow30Plus1 == <<1, 0, 0, 64>>

NearPow32 == <<254, 255, 255, 255>>

Pow62 == <<0, 0, 0, 0, 0, 0, 0, 64>>

\* The row stride the BMP format prescribes, for small w: w * n bytes
\* rounded up to a multiple of 4.
Stride(w, n) == ((w * n + 3) \div 4) * 4

\* Files with a sound header: every small size, both row orders, both
\* depths, pixel data right behind the header or after a gap, and a buffer
\* one byte short of, exactly as long as, or longer than the pixel data.
SoundBmps ==
  { MakeBmp(BM, 40, 0, bpp, ToBytes(w, 4), FromInt(sign * h, 4),
            ToBytes(HeaderSize + gap, 4),
            HeaderSize + gap + Stride(w, bpp \div 8) * h + slack, seed) :
      w \in 1..MaxWidth, h \in 1..MaxHeight, sign \in {1, -1}, bpp \in {24, 32},
      gap \in {0, 4}, slack \in (-1)..MaxSlack, seed \in Seeds }

\* Files whose header passes the five field checks with a width, height or
\* data offset at or beyond the edges of their types.
EdgeBmps ==
  { MakeBmp(BM, 40, 0, bpp, width, height, data_offset, len, 7) :
      width \in {FromInt(-1, 4), ToBytes(0, 4), ToBytes(1, 4), Pow30, Pow30Plus1},
      height \in {ToBytes(0, 4), ToBytes(1, 4), FromInt(-1, 4), Int32Min, Int32Max},
      bpp \in {24, 32},
      data_offset \in {ToBytes(HeaderSize, 4), NearPow32},
      len \in {HeaderSize, HeaderSize + 4} }

\* Files with any combination of a wrong magic, header size, compression
\* and depth, at lengths around the header size.
BrokenBmps ==
  { MakeBmp(magic, header_size, compression, bpp, ToBytes(1, 4), ToBytes(1, 4),
            ToBytes(HeaderSize, 4), len, 7) :
      magic \in {BM, <<88, 89>>}, header_size \in {40, 12, 124},
      compression \in {0, 1}, bpp \in {24, 32, 8, 0},
      len \in {0, 1, 2, HeaderSize - 1, HeaderSize, HeaderSize + 3, HeaderSize + 4} }

BmpInputs == SoundBmps \cup EdgeBmps \cup BrokenBmps

\* |k| for a small integer k.
Abs(k) == IF k < 0 THEN -k ELSE k

\* Dimensions a caller may put in an RGBA object: small, zero and negative
\* ones, and 2^62 (an exact JavaScript number); area is |width * height|
\* for the small ones.
SmallDims ==
  { [width |-> FromInt(w, 8), height |-> FromInt(h, 8), area |-> Abs(w * h)] :
      w \in (-3)..MaxWidth, h \in (-1)..MaxHeight }

HugeDims ==
  { [width |-> Pow62, height |-> FromInt(h, 8), area |-> 0] : h \in 0..1 }
    \cup { [width |-> FromInt(w, 8), height |-> Pow62, area |-> 0] : w \in 0..1 }

\* RGBA objects a caller builds: for each pair of dimensions an empty
\* buffer and buffers one byte short of, exactly as long as, and longer than
\* 4 bytes per pixel.
ImagesOf(d) ==
  { Image(d.width, d.height, [i \in 1..n |-> PixelByte(seed, i - 1)]) :
      n \in {0} \cup {m \in (4 * d.area - 1)..(4 * d.area + MaxSlack) : m >= 0},
      seed \in Seeds }

\* A 1 x 2^30 image in a buffer of 2^32 bytes, 4 bytes per pixel: of a
\* buffer that long the model keeps the byte length and the first pixels.
LargeImages ==
  { [Image(ToBytes(1, 8), ZExt(Pow30, 8), [i \in 1..8 |-> PixelByte(seed, i - 1)])
       EXCEPT !.byteLength = <<0, 0, 0, 0, 1, 0, 0, 0>>] : seed \in Seeds }

ImageInputs == UNION { ImagesOf(d) : d \in SmallDims \cup HugeDims } \cup LargeImages

\* Call shapes of encodeAnimated.
AnimatedArgs == {<<>>, <<"frames">>, <<"frames", "opts">>}

(***************************************************************************)
(* The host: a JavaScript program calling the three exports                *)
(***************************************************************************)

VARIABLES
  build,    \* how signed overflow behaves in this build of the addon
  op,       \* the export called last: "none", "decode", "encode", "encodeAnimated"
  buffer,   \* the bytes handed to the last decode
  image,    \* the RGBA object handed to the last encode
  ret,      \* the outcome of the last call
  first,    \* the decode outcome a chained encode was given
  chain,    \* 1 after decode, 2 after encode of its result, 3 after decode of that
  prev      \* the export called before the last one

vars == <<build, op, buffer, image, ret, first, chain, prev>>

NoImage == Image(<<>>, <<>>, <<>>)

\* The process is running and the last call has returned or thrown.
Live == ret.status \notin {Crashed, Hung}

Init ==
  /\ build \in Overflows
  /\ op = "none"
  /\ buffer = <<>>
  /\ image = NoImage
  /\ ret = NoOutcome
  /\ first = NoOutcome
  /\ chain = 0
  /\ prev = "none"

\* bmp.decode(buffer) on a buffer of the caller's.
Decode ==
  /\ op = "none"
  /\ \E b \in BmpInputs :
       /\ buffer' = b
       /\ ret' \in decode(b, build)
  /\ op' = "decode"
  /\ chain' = 1
  /\ prev' = op
  /\ UNCHANGED <<build, image, first>>

\* bmp.encode(image) on an RGBA object of the caller's.
Encode ==
  /\ op = "none"
  /\ \E img \in ImageInputs :
       /\ image' = img
       /\ ret' \in encode(img, build)
  /\ op' = "encode"
  /\ chain' = 0
  /\ prev' = op
  /\ UNCHANGED <<build, buffer, first>>

\* bmp.encode(bmp.decode(buffer)): the decoded object goes back in.
EncodeDecoded ==
  /\ op = "decode"
  /\ ret.status = Ok
  /\ LET img == [width |-> ret.width, height |-> ret.height, data |-> ret.data,
                 byteLength |-> ret.byteLength]
     IN  /\ image' = img
         /\ ret' \in encode(img, build)
  /\ first' = ret
  /\ op' = "encode"
  /\ chain' = 2
  /\ prev' = op
  /\ UNCHANGED <<build, buffer>>

\* bmp.decode(bmp.encode(image)): the encoded bytes go back in.
DecodeEncoded ==
  /\ op = "encode"
  /\ ret.status = Ok
  /\ buffer' = ret.data
  /\ ret' \in decode(ret.data, build)
  /\ op' = "decode"
  /\ chain' = IF chain = 2 THEN 3 ELSE 1
  /\ prev' = op
  /\ UNCHANGED <<build, image, first>>

\* bmp.encodeAnimated(...), at any point of the program; the inputs of the
\* earlier calls are no longer tracked.
EncodeAnimated ==
  /\ Live
  /\ op # "encodeAnimated"
  /\ \E args \in AnimatedArgs : ret' = encodeAnimated(args)
  /\ op' = "encodeAnimated"
  /\ prev' = op
  /\ buffer' = <<>>
  /\ image' = NoImage
  /\ first' = NoOutcome
  /\ chain' = 0
  /\ UNCHANGED build

\* The caller drops what it holds; the finalizer frees the returned block.
Release ==
  /\ Live
  /\ op # "none"
  /\ op' = "none"
  /\ buffer' = <<>>
  /\ image' = NoImage
  /\ ret' = NoOutcome
  /\ first' = NoOutcome
  /\ chain' = 0
  /\ prev' = "none"
  /\ UNCHANGED build

Next ==
  \/ Decode
  \/ Encode
  \/ EncodeDecoded
  \/ DecodeEncoded
  \/ EncodeAnimated
  \/ Release

Spec == Init /\ [][Next]_vars

(***************************************************************************)
(* Vocabulary of the properties: the spec's quantities as exact integers   *)
(* (12- and 24-byte values that no product of the inputs can overflow).    *)
(***************************************************************************)

\* The six checks of the decoder's validation sequence, on a buffer b, with
\* the fields read little-endian at their offsets.
Check1(b) == Len(b) >= 54

Check2(b) == SubSeq(b, 1, 2) = <<66, 77>>

Check3(b) == SubSeq(b, 15, 18) = ToBytes(40, 4)

Check4(b) == SubSeq(b, 31, 34) = ToBytes(0, 4)

Check5(b) == SubSeq(b, 29, 30) \in {ToBytes(24, 2), ToBytes(32, 2)}

\* |height| of the header's height field.
ExactAbsHeight(b) ==
  LET h == SExt(SubSeq(b, 23, 26), 12) IN IF IsNeg(h) THEN Neg(h) ELSE h

\* stride = ceil(width * bytes_per_pixel / 4) * 4.
ExactStride(b) ==
  LET n == ToNat(ZExt(SubSeq(b, 29, 30), 4)) \div 8
      x == Mul(SExt(SubSeq(b, 19, 22), 12), ToBytes(n, 12))
  IN  IF IsNeg(x) THEN Neg(Mul(UDiv(Neg(x), 4), ToBytes(4, 12)))
      ELSE Mul(UDiv(Add(x, ToBytes(3, 12)), 4), ToBytes(4, 12))

\* data_offset + stride * |height|.
ExactExtent(b) ==
  Add(ZExt(SubSeq(b, 11, 14), 12), Mul(ExactStride(b), ExactAbsHeight(b)))

Check6(b) == ~SLt(ToBytes(Len(b), 12), ExactExtent(b))

\* The failure the validation sequence prescribes for b: that of the first
\* check that does not hold; "ok" when all six hold.
FirstFailure(b) ==
  IF ~Check1(b) THEN TooSmall
  ELSE IF ~Check2(b) THEN BadMagic
  ELSE IF ~Check3(b) THEN UnsupportedHeader
  ELSE IF ~Check4(b) THEN UnsupportedCompression
  ELSE IF ~Check5(b) THEN UnsupportedBitDepth
  ELSE IF ~Check6(b) THEN TruncatedData
  ELSE Ok

\* The input offsets the checks up to and including the one that decides
\* FirstFailure(b) are about.
FieldsChecked(b) ==
  IF ~Check1(b) THEN {}
  ELSE IF ~Check2(b) THEN 0..1
  ELSE IF ~Check3(b) THEN (0..1) \cup (14..17)
  ELSE IF ~Check4(b) THEN (0..1) \cup (14..17) \cup (30..33)
  ELSE IF ~Check5(b) THEN (0..1) \cup (14..17) \cup (28..33)
  ELSE (0..1) \cup (10..25) \cup (28..33)

\* width * height * 4 of an RGBA object, exactly.
ExactArea4(w, h) == Mul(Mul(SExt(w, 24), SExt(h, 24)), ToBytes(4, 24))

Positive(a) == ~IsNeg(a) /\ ~IsZero(a)

(***************************************************************************)
(* C9                                                                      *)
(***************************************************************************)

\* C9: every call of encodeAnimated, whatever its arguments and whatever
\* was called before it, throws the fixed "not supported" error: it returns
\* no value and no output buffer is allocated or written.
C9_AnimatedAlwaysFails ==
  op = "encodeAnimated" =>
    /\ ret.status = NotSupported
    /\ ret.data = <<>> /\ ret.byteLength = <<>>
    /\ ret.width = <<>> /\ ret.height = <<>>
    /\ ~ret.allocated /\ ~ret.oob

\* encodeAnimated was called right after an encode that had returned a file.
C9_Witness == op = "encodeAnimated" /\ prev = "encode" /\ ret.status = NotSupported

(***************************************************************************)
(* C8                                                                      *)
(***************************************************************************)

\* C8, as stated: decode of any buffer whose first two bytes are not
\* 0x42,0x4D fails with BadMagic, whatever its length and its other bytes.
C8_Claim ==
  (op = "decode" /\ Len(buffer) >= 2 /\ SubSeq(buffer, 1, 2) # <<66, 77>>)
    => ret.status = BadMagic

\* C8, amended: decode of any buffer of at least 54 bytes whose first two
\* bytes are not 0x42,0x4D fails with BadMagic, whatever its other bytes;
\* a buffer shorter than 54 bytes fails with TooSmall whatever it begins
\* with.
C8_BadMagic ==
  op = "decode" =>
    /\ (Len(buffer) >= 54 /\ SubSeq(buffer, 1, 2) # <<66, 77>>)
         => (ret.status = BadMagic /\ ret.reads = 0..1)
    /\ Len(buffer) < 54 => ret.status = TooSmall

\* A 54-byte-or-longer buffer with a wrong magic and, besides, a wrong
\* header size, compression and depth was decoded.
C8_Witness ==
  /\ op = "decode" /\ Len(buffer) >= 54
  /\ ~Check2(buffer) /\ ~Check3(buffer) /\ ~Check4(buffer) /\ ~Check5(buffer)
  /\ ret.status = BadMagic

(***************************************************************************)
(* C3                                                                      *)
(***************************************************************************)

\* C3: decode applies its six checks in the fixed order length, magic,
\* header size, compression, depth, pixel extent (data_offset + stride *
\* |height| <= length): the failure reported is that of the first check that
\* does not hold, no field of a later check is read once an earlier check
\* fails, and decode succeeds only if all six hold.
C3_Claim ==
  op = "decode" =>
    /\ FirstFailure(buffer) # Ok =>
         (ret.status = FirstFailure(buffer) /\ ret.reads \subseteq FieldsChecked(buffer))
    /\ ret.status = Ok => FirstFailure(buffer) = Ok

(***************************************************************************)
(* C4                                                                      *)
(***************************************************************************)

\* C4: decode fails with TruncatedData whenever data_offset + stride *
\* |height|, as exact integers, exceeds the input length (the five earlier
\* checks holding), so that on every successful decode each source byte
\* read lies at an offset below the input length; for all header values.
C4_Claim ==
  op = "decode" =>
    /\ FirstFailure(buffer) = TruncatedData => ret.status = TruncatedData
    /\ ret.status = Ok =>
         (~ret.oob /\ ret.reads \subseteq 0..(Len(buffer) - 1))

(***************************************************************************)
(* C5                                                                      *)
(***************************************************************************)

\* C5: on every successful decode the returned width is positive, the
\* returned height is positive and equals |height field|, and the returned
\* buffer has exactly width * height * 4 bytes.
C5_Claim ==
  (op = "decode" /\ ret.status = Ok) =>
    /\ Positive(ret.width)
    /\ Positive(ret.height)
    /\ SExt(ret.height, 12) = ExactAbsHeight(buffer)
    /\ ZExt(ret.byteLength, 24) = ExactArea4(ret.width, ret.height)
    /\ ToBytes(Len(ret.data), 24) = ExactArea4(ret.width, ret.height)

(***************************************************************************)
(* C1                                                                      *)
(***************************************************************************)

\* C1: on every successful decode, for every output pixel (x, y) with
\* 0 <= x < width and 0 <= y < abs_height, the four output bytes at offset
\* (y * width + x) * 4 are R, G, B, A of the source pixel at data_offset +
\* src_row * stride + x * bytes_per_pixel, stored there as B, G, R[, A],
\* with src_row = y for a negative height field and abs_height - 1 - y for a
\* positive one, and A = 255 for 24-bit input.
C1_Claim ==
  (op = "decode" /\ ret.status = Ok /\ Positive(ret.width) /\ Positive(ret.height)) =>
    \* every pixel has its four bytes in the returned buffer
    /\ ToBytes(Len(ret.data), 24) = ExactArea4(ret.width, ret.height)
    /\ LET w      == ToNat(ret.width)
           h      == ToNat(ret.height)
           n      == ToNat(ZExt(SubSeq(buffer, 29, 30), 4)) \div 8
           stride == ((w * n + 3) \div 4) * 4
           neg    == IsNeg(SubSeq(buffer, 23, 26))
           off    == SubSeq(buffer, 11, 14)
       IN  \A y \in 0..(h - 1) : \A x \in 0..(w - 1) :
             LET src_row == IF neg THEN y ELSE h - 1 - y
                 o == (y * w + x) * 4
             IN  \* the source pixel lies in the input
                 /\ IsSmall(off)
                 /\ ToNat(off) + src_row * stride + x * n + n <= Len(buffer)
                 /\ LET s == ToNat(off) + src_row * stride + x * n
                    IN  /\ ret.data[o + 1] = buffer[s + 3]
                        /\ ret.data[o + 2] = buffer[s + 2]
                        /\ ret.data[o + 3] = buffer[s + 1]
                        /\ ret.data[o + 4] = IF n = 4 THEN buffer[s + 4] ELSE 255

(***************************************************************************)
(* C7                                                                      *)
(***************************************************************************)

\* C7: encode fails with BufferTooSmall exactly when the RGBA buffer's
\* length is less than width * height * 4 taken as an exact integer, and then
\* before any output buffer is allocated or written; for every input whose
\* length is at least that product the validation passes.
C7_Claim ==
  op = "encode" =>
    LET short == SLt(ZExt(image.byteLength, 24),
                     ExactArea4(image.width, image.height))
    IN  /\ short => (ret.status = BufferTooSmall /\ ~ret.allocated)
        /\ ~short => ret.status # BufferTooSmall

(***************************************************************************)
(* C10                                                                     *)
(***************************************************************************)

\* C10: for every (width, height, buffer) that passes encode's size
\* validation, every byte encode writes lies inside the allocated output
\* buffer and every byte it reads lies inside the supplied RGBA buffer.
C10_Claim ==
  (op = "encode" /\ ret.allocated) =>
    /\ ~ret.oob
    /\ \A r \in ret.reads : ULt(ToBytes(r, 8), image.byteLength)

(***************************************************************************)
(* C6                                                                      *)
(***************************************************************************)

\* C6: for every encode input with positive width and height and a buffer
\* of at least width * height * 4 bytes, the output has 54 + stride * height
\* bytes with stride = ceil(width * 3 / 4) * 4; its header holds 'BM',
\* file_size = the output length, reserved = 0, data_offset = 54,
\* header_size = 40, the width, the height written positive, planes = 1,
\* bpp = 24, compression = 0, image_size = stride * height, both
\* resolutions 2835 and palette fields 0; source row y is stored at
\* destination row height - 1 - y with each pixel's R,G,B as B,G,R and the
\* alpha dropped; and the padding bytes at the tail of each row are 0.
C6_Claim ==
  (/\ op = "encode"
   /\ Positive(image.width) /\ Positive(image.height)
   /\ ~SLt(ZExt(image.byteLength, 24), ExactArea4(image.width, image.height)))
  => /\ ret.status = Ok
     /\ ~ret.oob
     /\ LET w      == ToNat(Trunc(image.width, 4))
            h      == ToNat(Trunc(image.height, 4))
            stride == ((w * 3 + 3) \div 4) * 4
            out    == ret.data
        IN  /\ Len(out) = 54 + stride * h
            /\ ret.byteLength = ToBytes(Len(out), 8)
            /\ SubSeq(out, 1, 2) = <<66, 77>>
            /\ SubSeq(out, 3, 6) = ToBytes(Len(out), 4)
            /\ SubSeq(out, 7, 10) = <<0, 0, 0, 0>>
            /\ SubSeq(out, 11, 14) = ToBytes(54, 4)
            /\ SubSeq(out, 15, 18) = ToBytes(40, 4)
            /\ SubSeq(out, 19, 22) = ToBytes(w, 4)
            /\ SubSeq(out, 23, 26) = ToBytes(h, 4)
            /\ SubSeq(out, 27, 28) = ToBytes(1, 2)
            /\ SubSeq(out, 29, 30) = ToBytes(24, 2)
            /\ SubSeq(out, 31, 34) = <<0, 0, 0, 0>>
            /\ SubSeq(out, 35, 38) = ToBytes(stride * h, 4)
            /\ SubSeq(out, 39, 42) = ToBytes(2835, 4)
            /\ SubSeq(out, 43, 46) = ToBytes(2835, 4)
            /\ SubSeq(out, 47, 54) = <<0, 0, 0, 0, 0, 0, 0, 0>>
            /\ \A y \in 0..(h - 1) :
                 LET row == 54 + (h - 1 - y) * stride
                 IN  /\ \A x \in 0..(w - 1) :
                          LET s == (y * w + x) * 4
                              d == row + 3 * x
                          IN  /\ out[d + 1] = image.data[s + 3]
                              /\ out[d + 2] = image.data[s + 2]
                              /\ out[d + 3] = image.data[s + 1]
                     /\ \A k \in (w * 3)..(stride - 1) : out[row + k + 1] = 0

(***************************************************************************)
(* C2                                                                      *)
(***************************************************************************)

\* A decode result as C5 describes it: positive width and height and a
\* buffer of width * height * 4 bytes.
WellFormed(r) ==
  /\ r.status = Ok
  /\ Positive(r.width) /\ Positive(r.height)
  /\ ToBytes(Len(r.data), 24) = ExactArea4(r.width, r.height)

\* C2, as stated, for first decodes that read inside their input and
\* returned positive dimensions and width * height * 4 bytes: decode, then
\* encode of that result, then decode of the encoded bytes succeeds and
\* yields width, height and RGBA bytes identical to those of the first
\* decode.
C2_Claim ==
  /\ (op = "encode" /\ chain = 2 /\ WellFormed(first) /\ ~first.oob)
       => ret.status = Ok
  /\ (op = "decode" /\ chain = 3 /\ WellFormed(first) /\ ~first.oob) =>
       /\ ret.status = Ok
       /\ ret.width = first.width
       /\ ret.height = first.height
       /\ ret.data = first.data

\* C2, amended: whenever the first decode returned positive dimensions and
\* width * height * 4 bytes, encode of that result and decode of the encoded
\* bytes succeed; and whenever the three calls succeed, the second decode
\* yields the width and height of the first, the same number of bytes, and
\* for every pixel the R, G, B of the first with alpha 255: the RGBA bytes
\* are identical exactly when every alpha of the first decode is 255.
C2_RoundTrip ==
  /\ (op = "encode" /\ chain = 2 /\ WellFormed(first)) => ret.status = Ok
  /\ (op = "decode" /\ chain = 3 /\ WellFormed(first)) => ret.status = Ok
  /\ (op = "decode" /\ chain = 3 /\ ret.status = Ok) =>
       /\ ret.width = first.width
       /\ ret.height = first.height
       /\ Len(ret.data) = Len(first.data)
       /\ \A i \in 1..Len(ret.data) :
            ret.data[i] = IF i % 4 = 0 THEN 255 ELSE first.data[i]
       /\ (ret.data = first.data) <=>
            (\A i \in 1..Len(first.data) : i % 4 = 0 => first.data[i] = 255)

\* A two-row decode result with an alpha other than 255 went through encode
\* and decode again.
C2_Witness ==
  /\ op = "decode" /\ chain = 3 /\ ret.status = Ok
  /\ first.height = ToBytes(2, 8)
  /\ \E i \in 1..Len(first.data) : i % 4 = 0 /\ first.data[i] # 255
  /\ ret.data # first.data

=============================================================================
